---- MODULE Spec2Model ----
(***************************************************************************)
(* SKM Chambers backend (skm-chambers-backend/server.js): the Express      *)
(* middleware chain, the six routes, the two Mongoose schemas and the      *)
(* MongoDB collections behind them.                                        *)
(*                                                                         *)
(* A request is handled in one step when its handler never awaits the      *)
(* store, and in two steps (the handler up to its await, then the          *)
(* resumption with the store's outcome) when it does.                      *)
(***************************************************************************)
EXTENDS Integers, Sequences, FiniteSets, TLC

\* ---------------------------------------------------------------- bounds
\* documents the two collections may hold together
MaxRecords == 2
\* requests suspended at an await at the same time
MaxPending == 2
\* last value of the millisecond clock (Date.now)
MaxClock == 2

\* ----------------------------------------------------------- JSON values
\* A value of a request body or of a document: kind k, text s, number n.
Absent == [k |-> "absent", s |-> "", n |-> 0]
Str(t) == [k |-> "str", s |-> t, n |-> 0]
NumSeven == [k |-> "num", s |-> "7", n |-> 7]
EmptyArray == [k |-> "arr", s |-> "", n |-> 0]
DateV(t) == [k |-> "date", s |-> "", n |-> t]
InvalidDate == [k |-> "invalidDate", s |-> "", n |-> 0]
ObjectId(hex) == [k |-> "oid", s |-> hex, n |-> 0]
CastError == [k |-> "castError", s |-> "", n |-> 0]

\* JavaScript truthiness, as `!req.body.name` reads it.
Truthy(v) ==
  CASE v.k = "absent" -> FALSE
    [] v.k = "str" -> v.s # ""
    [] v.k = "num" -> v.n # 0
    [] OTHER -> TRUE

\* Date.parse on the texts the requests carry, in clock units; -1 is NaN.
DateParse(t) ==
  CASE t = "2000-01-01" -> 0
    [] t = "2030-05-01" -> 9
    [] OTHER -> -1

\* new Date(x)
NewDate(v) ==
  CASE v.k = "str" -> IF DateParse(v.s) < 0 THEN InvalidDate ELSE DateV(DateParse(v.s))
    [] v.k = "num" -> DateV(v.n)
    [] v.k = "date" -> v
    [] OTHER -> InvalidDate

\* Schema type String: text is kept, a number is rendered, an array is refused.
CastString(v) ==
  CASE v.k = "absent" -> Absent
    [] v.k = "str" -> v
    [] v.k = "num" -> Str(v.s)
    [] OTHER -> CastError

\* A Date cast that takes an Invalid Date for the epoch; not the schema's.
CastDate_Lenient(v) ==
  CASE v.k = "absent" -> Absent
    [] v.k = "date" -> v
    [] v.k \in {"str", "num"} -> IF NewDate(v) = InvalidDate THEN DateV(0) ELSE NewDate(v)
    [] v.k = "invalidDate" -> DateV(0)
    [] OTHER -> CastError

\* Schema type Date: a valid Date is kept, a text or number is converted,
\* an Invalid Date is refused.
CastDate(v) ==
  CASE v.k = "absent" -> Absent
    [] v.k = "date" -> v
    [] v.k \in {"str", "num"} -> IF NewDate(v) = InvalidDate THEN CastError ELSE NewDate(v)
    [] OTHER -> CastError

\* The 24 hex digit texts among those the requests carry.
IsObjectIdHex(t) == t \in {"c1"}

\* The _id path: a caller's text is taken when it is an ObjectId's hex form.
CastObjectId(v) ==
  CASE v.k = "oid" -> v
    [] v.k = "str" -> IF IsObjectIdHex(v.s) THEN ObjectId(v.s) ELSE CastError
    [] OTHER -> CastError

\* `required: true` on a path: a String must be non-empty, a Date present.
RequiredOk(v) ==
  CASE v.k = "str" -> v.s # ""
    [] v.k = "date" -> TRUE
    [] OTHER -> FALSE

\* --------------------------------------------------------------- schemas
EnquiryPaths == {"_id", "name", "email", "phone", "subject", "message", "type", "createdAt"}
EnquiryRequired == {"name", "email", "message"}
AppointmentPaths ==
  {"_id", "name", "email", "phone", "preferredDate", "preferredTime", "purpose",
   "type", "status", "createdAt"}
AppointmentRequired == {"name", "email", "phone", "preferredDate", "preferredTime", "purpose"}

\* Every key a request body of the model may carry.
BodyKeys == EnquiryPaths \cup AppointmentPaths \cup {"extra"}
NoBody == [f \in BodyKeys |-> Absent]

\* A path left undefined takes the schema's default.
WithDefault(v, d) == IF v = Absent THEN d ELSE v

\* new Enquiry(body): the schema's paths only (strict), cast, with defaults;
\* oid is the ObjectId generated for the document, now is Date.now().
enquirySchema(body, oid, now) ==
  [f \in EnquiryPaths |->
     CASE f = "_id" -> CastObjectId(WithDefault(body[f], ObjectId(oid)))
       [] f = "type" -> WithDefault(CastString(body[f]), Str("general_enquiry"))
       [] f = "createdAt" -> WithDefault(CastDate(body[f]), DateV(now))
       [] OTHER -> CastString(body[f])]

\* new Appointment(data)
appointmentSchema(data, oid, now) ==
  [f \in AppointmentPaths |->
     CASE f = "_id" -> CastObjectId(WithDefault(data[f], ObjectId(oid)))
       [] f = "type" -> WithDefault(CastString(data[f]), Str("appointment_request"))
       [] f = "status" -> WithDefault(CastString(data[f]), Str("pending"))
       [] f = "createdAt" -> WithDefault(CastDate(data[f]), DateV(now))
       [] f = "preferredDate" -> CastDate(data[f])
       [] OTHER -> CastString(data[f])]

\* { ...req.body, preferredDate: new Date(req.body.preferredDate) }
appointmentData(body) == [body EXCEPT !["preferredDate"] = NewDate(body["preferredDate"])]

\* Document validation, run by save() before anything is sent to the store.
ValidationPasses(doc, required) ==
  /\ \A f \in DOMAIN doc : doc[f] # CastError
  /\ \A f \in required : RequiredOk(doc[f])

\* ----------------------------------------------------------------- state
VARIABLES
  readyState,    \* mongoose.connection.readyState: 0 disconnected, 1 connected,
                 \* 2 connecting, 3 disconnecting
  exited,        \* process.exit was called
  clock,         \* Date.now()
  enquiries,     \* the documents of the Enquiry collection
  appointments,  \* the documents of the Appointment collection
  pending,       \* the requests whose handler is suspended at an await; a create
                 \* keeps its document, the ObjectId generated for it (oid) and
                 \* the Date.now() its createdAt default read (now); history:
                 \* what had happened when the request arrived (after): for a
                 \* create the _ids its collection held, for a list the 201
                 \* responses already sent
  lastResponse,  \* the response the last turn of the event loop sent, with the
                 \* request it answers; NoResponse once it has left
  created,       \* history: the 201 responses sent so far (handler, id, body)
  before         \* history: <<collection, a, b>> when the document with _id a
                 \* was in the collection before the request that inserted b arrived

vars ==
  <<readyState, exited, clock, enquiries, appointments, pending,
    lastResponse, created, before>>

\* ------------------------------------------------------------- requests
\* process.env.NODE_ENV, read by a handler when it answers.
NodeEnvs == {"production", "development", "unset"}

EnquiryOk ==
  [NoBody EXCEPT !["name"] = Str("A"), !["email"] = Str("a@x.com"), !["message"] = Str("hi")]

\* Bodies that pass the handler's check of the required fields: the plain form,
\* one with every optional field, a number for a text, a caller's _id and a key
\* the schema does not have, and one the schema cannot cast.
EnquiryBodies ==
  {EnquiryOk,
   [EnquiryOk EXCEPT !["name"] = NumSeven, !["phone"] = Str("555"),
                     !["subject"] = Str("fees"), !["type"] = Str("urgent"),
                     !["_id"] = Str("c1"), !["extra"] = Str("x")],
   [EnquiryOk EXCEPT !["name"] = EmptyArray, !["_id"] = Str("zz")]}

\* Bodies with a required field absent or empty.
EnquiryIncomplete ==
  {[EnquiryOk EXCEPT ![f] = v] : f \in EnquiryRequired, v \in {Absent, Str("")}}

AppointmentOk ==
  [NoBody EXCEPT !["name"] = Str("A"), !["email"] = Str("a@x.com"),
                 !["phone"] = Str("555"), !["preferredDate"] = Str("2030-05-01"),
                 !["preferredTime"] = Str("10:00"), !["purpose"] = Str("will")]

\* Bodies that pass the handler's check: the plain form, one with a caller's
\* type, status, _id and createdAt, and one whose date is no date.
AppointmentBodies ==
  {AppointmentOk,
   [AppointmentOk EXCEPT !["type"] = Str("urgent"), !["status"] = Str("confirmed"),
                         !["_id"] = Str("c1"), !["createdAt"] = Str("2000-01-01")],
   [AppointmentOk EXCEPT !["preferredDate"] = Str("soon")]}

AppointmentIncomplete ==
  {[AppointmentOk EXCEPT ![f] = v] : f \in AppointmentRequired, v \in {Absent, Str("")}}

\* A request: bodyOk tells whether express.json / express.urlencoded could
\* parse the body (well formed, within the limit); a body that could not be
\* parsed is never read.
Request(method, path, body) == [method |-> method, path |-> path, body |-> body, bodyOk |-> TRUE]
Unparsable(method, path) == [method |-> method, path |-> path, body |-> NoBody, bodyOk |-> FALSE]

\* The traffic of Spec: the create routes with every body that reaches the
\* store, the list routes, and one request for each other way a request is
\* answered.
StoreRequests ==
  {Request("POST", "/api/enquiry", b) :
     b \in EnquiryBodies \cup {[EnquiryOk EXCEPT !["message"] = Absent]}}
  \cup {Request("POST", "/api/appointment", b) :
          b \in AppointmentBodies \cup {[AppointmentOk EXCEPT !["preferredDate"] = Str("")]}}
  \cup {Request("GET", "/api/enquiries", NoBody), Request("GET", "/api/appointments", NoBody),
        Request("GET", "/health", NoBody), Request("GET", "/", NoBody),
        Request("GET", "/nope", NoBody), Request("OPTIONS", "/nope", NoBody),
        Unparsable("POST", "/nope")}

\* The traffic of SpecRouting: every method on every path, the create routes
\* with every incomplete body, one body each that reaches the store, and
\* bodies the parser refuses on a route and beside the routes.
Methods == {"GET", "POST", "HEAD", "OPTIONS", "DELETE"}
Paths ==
  {"/", "/health", "/api/enquiry", "/api/appointment", "/api/enquiries",
   "/api/appointments", "/nope"}

BodiesFor(method, path) ==
  CASE method = "POST" /\ path = "/api/enquiry" -> EnquiryIncomplete \cup {EnquiryOk}
    [] method = "POST" /\ path = "/api/appointment" ->
         AppointmentIncomplete \cup {[AppointmentOk EXCEPT !["preferredDate"] = Str("soon")]}
    [] OTHER -> {NoBody}

RoutingRequests ==
  UNION {{Request(m, p, b) : b \in BodiesFor(m, p)} : m \in Methods, p \in Paths}
  \cup {Unparsable("POST", "/api/enquiry"), Unparsable("POST", "/nope"),
        Unparsable("GET", "/health")}

\* ------------------------------------------------------------ responses
Response(req, handler, status) ==
  [req |-> req, handler |-> handler, status |-> status, sends |-> 1,
   json |-> req.method # "HEAD", success |-> "absent", error |-> "", message |-> "",
   details |-> "", id |-> "", count |-> 0, data |-> <<>>, database |-> "",
   environment |-> "", nodeEnv |-> "", availableEndpoints |-> FALSE, storeOps |-> 0]

NoRequest == Request("", "", NoBody)
NoResponse == [Response(NoRequest, "none", 0) EXCEPT !.sends = 0, !.json = FALSE]

\* --------------------------------------------------------------- routing
\* The table with the catch-all registered ahead of the root route; not the
\* order of the source.
Route_CatchAllFirst(method, path) ==
  LET m == IF method = "HEAD" THEN "GET" ELSE method IN
  CASE m = "POST" /\ path = "/api/enquiry" -> "postEnquiry"
    [] m = "POST" /\ path = "/api/appointment" -> "postAppointment"
    [] m = "GET" /\ path = "/api/enquiries" -> "getEnquiries"
    [] m = "GET" /\ path = "/api/appointments" -> "getAppointments"
    [] m = "GET" /\ path = "/health" -> "health"
    [] OTHER -> "notFound"

\* A route registered with app.get also answers HEAD.
Route(method, path) ==
  LET m == IF method = "HEAD" THEN "GET" ELSE method IN
  CASE m = "POST" /\ path = "/api/enquiry" -> "postEnquiry"
    [] m = "POST" /\ path = "/api/appointment" -> "postAppointment"
    [] m = "GET" /\ path = "/api/enquiries" -> "getEnquiries"
    [] m = "GET" /\ path = "/api/appointments" -> "getAppointments"
    [] m = "GET" /\ path = "/health" -> "health"
    [] m = "GET" /\ path = "/" -> "root"
    [] OTHER -> "notFound"

\* The middleware chain in the order of its app.use calls: cors ends an
\* OPTIONS request itself, a body parser that fails hands its error to the
\* error-handling middleware, the logger passes every request on.
Dispatch(req) ==
  IF req.method = "OPTIONS" THEN "cors"
  ELSE IF ~req.bodyOk THEN "errorMiddleware"
  ELSE Route(req.method, req.path)

\* ------------------------------------------------------------- the store
\* The hex form of the n-th ObjectId.
OidHex(n) == ToString(n)

UsedOids ==
  {d["_id"].s : d \in enquiries \cup appointments}
  \cup {p.doc["_id"].s : p \in {q \in pending : q.handler \in {"postEnquiry", "postAppointment"}}}

\* The ObjectId a new document is given: one no document has.
GenOid ==
  OidHex(CHOOSE n \in 1..(MaxRecords + 1) :
           /\ OidHex(n) \notin UsedOids
           /\ \A m \in 1..(n - 1) : OidHex(m) \in UsedOids)

\* A write that is acknowledged and lost, and a write that replaces the
\* collection; neither is insertOne.
InsertOne_Lost(coll, doc) == coll

InsertOne_Replace(coll, doc) == {doc}

\* insertOne
InsertOne(coll, doc) == coll \cup {doc}

\* A collection without the unique index on _id.
DuplicateKey_None(coll, doc) == FALSE

\* The unique index on _id.
DuplicateKey(coll, doc) == \E d \in coll : d["_id"] = doc["_id"]

\* find().sort({ createdAt: -1 }): the documents, latest createdAt first; the
\* order among equal createdAt is the store's choice.
SortedByCreatedAtDesc(coll) ==
  {q \in [1..Cardinality(coll) -> coll] :
     /\ \A i, j \in DOMAIN q : i # j => q[i] # q[j]
     /\ \A i, j \in DOMAIN q : i < j => q[i]["createdAt"].n >= q[j]["createdAt"].n}

\* The errors a handler catches.
ValidationError == [name |-> "ValidationError", message |-> "validation failed"]
MongoServerError == [name |-> "MongoServerError", message |-> "E11000 duplicate key error"]
MongooseError == [name |-> "MongooseError", message |-> "operation timed out"]

\* --------------------------------------------------------- handler parts
FreeRid == CHOOSE r \in 1..MaxPending : \A p \in pending : p.rid # r

CanSuspend == Cardinality(pending) < MaxPending

\* Room for one more document, counting the suspended creates.
Room ==
  Cardinality(enquiries) + Cardinality(appointments)
    + Cardinality({p \in pending : p.handler \in {"postEnquiry", "postAppointment"}})
  < MaxRecords

\* The appointment check without its preferredTime operand.
AppointmentMissing_NoTime(body) ==
  \/ ~Truthy(body["name"]) \/ ~Truthy(body["email"]) \/ ~Truthy(body["phone"])
  \/ ~Truthy(body["preferredDate"]) \/ ~Truthy(body["purpose"])

\* A catch block without the ValidationError branch.
CreateCatch_Always500(req, handler, error, failed) ==
  <<[Response(req, handler, 500) EXCEPT
       !.error = failed, !.details = error.message, !.storeOps = 1]>>

EnquiryMissing(body) ==
  ~Truthy(body["name"]) \/ ~Truthy(body["email"]) \/ ~Truthy(body["message"])

AppointmentMissing(body) ==
  \/ ~Truthy(body["name"]) \/ ~Truthy(body["email"]) \/ ~Truthy(body["phone"])
  \/ ~Truthy(body["preferredDate"]) \/ ~Truthy(body["preferredTime"])
  \/ ~Truthy(body["purpose"])

\* The catch block of a create handler: the responses it sends for an error.
CreateCatch(req, handler, error, failed) ==
  IF error.name = "ValidationError"
  THEN <<[Response(req, handler, 400) EXCEPT
            !.error = "Validation error", !.details = error.message, !.storeOps = 1]>>
  ELSE <<[Response(req, handler, 500) EXCEPT
            !.error = failed, !.details = error.message, !.storeOps = 1]>>

\* What the client receives of the responses a handler sent: the first, with
\* the number of sends.
Sent(responses) == [responses[1] EXCEPT !.sends = Len(responses)]

\* What save() ends with: a validation error before the store is reached,
\* else a store error (at any time: a timeout, a lost connection, or a
\* duplicate _id), else the insert, which needs the connection.
SaveOutcomes(coll, doc, required) ==
  IF ~ValidationPasses(doc, required) THEN {"ValidationError"}
  ELSE {"MongooseError"}
       \cup (IF readyState = 1
             THEN (IF DuplicateKey(coll, doc) THEN {"MongoServerError"} ELSE {"ok"})
             ELSE {})

ErrorNamed(name) ==
  CASE name = "ValidationError" -> ValidationError
    [] name = "MongoServerError" -> MongoServerError
    [] OTHER -> MongooseError

\* A turn of the event loop starts when the process runs and the last turn's
\* response has left.
Running == ~exited /\ lastResponse = NoResponse

\* ------------------------------------------------------------------ Init
Init ==
  /\ readyState = 2
  /\ exited = FALSE
  /\ clock = 1
  /\ enquiries = {}
  /\ appointments = {}
  /\ pending = {}
  /\ lastResponse = NoResponse
  /\ created = {}
  /\ before = {}

\* --------------------------------------------------- middleware responses
\* cors(corsOptions) on an OPTIONS request: 204, no body, the chain ends.
CorsPreflight(req) ==
  /\ Running
  /\ Dispatch(req) = "cors"
  /\ lastResponse' = [Response(req, "cors", 204) EXCEPT !.json = FALSE]
  /\ UNCHANGED <<readyState, exited, clock, enquiries, appointments, pending,
                 created, before>>

\* err.message of the error a body parser raises.
ParseErrorMessage == "request body could not be parsed"

\* The error-handling middleware's response to an error passed down the chain.
ErrorResponder(req, NODE_ENV, message) ==
  [Response(req, "errorMiddleware", 500) EXCEPT
     !.error = "Internal server error", !.nodeEnv = NODE_ENV,
     !.message = IF NODE_ENV = "development" THEN message ELSE "Something went wrong"]

\* A body the parser refuses reaches no route: its error goes to the
\* error-handling middleware.
ErrorMiddleware(req) ==
  /\ Running
  /\ Dispatch(req) = "errorMiddleware"
  /\ \E NODE_ENV \in NodeEnvs :
       lastResponse' = ErrorResponder(req, NODE_ENV, ParseErrorMessage)
  /\ UNCHANGED <<readyState, exited, clock, enquiries, appointments, pending,
                 created, before>>

\* ------------------------------------------------------- create handlers
\* app.post('/api/enquiry'), up to `await enquiry.save()`.
PostEnquiry(req) ==
  /\ Running
  /\ Dispatch(req) = "postEnquiry"
  /\ IF EnquiryMissing(req.body)
     THEN /\ lastResponse' =
               Sent(<<[Response(req, "postEnquiry", 400) EXCEPT
                         !.error = "Missing required fields: name, email, and message are required"]>>)
          /\ UNCHANGED pending
     ELSE /\ CanSuspend
          /\ Room
          /\ LET enquiry == enquirySchema(req.body, GenOid, clock) IN
               /\ pending' = pending \cup
                    {[rid |-> FreeRid, handler |-> "postEnquiry", req |-> req, doc |-> enquiry,
                      oid |-> GenOid, now |-> clock,
                      after |-> {d["_id"].s : d \in enquiries}]}
          /\ UNCHANGED lastResponse
  /\ UNCHANGED <<readyState, exited, clock, enquiries, appointments, created, before>>

\* app.post('/api/enquiry'), from the end of `await enquiry.save()`.
EnquirySaved(p) ==
  /\ Running
  /\ p \in pending
  /\ p.handler = "postEnquiry"
  /\ \E outcome \in SaveOutcomes(enquiries, p.doc, EnquiryRequired) :
       IF outcome = "ok"
       THEN /\ enquiries' = InsertOne(enquiries, p.doc)
            /\ lastResponse' =
                 Sent(<<[Response(p.req, "postEnquiry", 201) EXCEPT
                           !.success = "true", !.message = "Enquiry submitted successfully",
                           !.id = p.doc["_id"].s, !.storeOps = 1]>>)
            /\ created' = created \cup
                 {[handler |-> "postEnquiry", id |-> p.doc["_id"].s, body |-> p.req.body]}
            /\ before' = before \cup {<<"enquiries", a, p.doc["_id"].s>> : a \in p.after}
       ELSE /\ lastResponse' =
                 Sent(CreateCatch(p.req, "postEnquiry", ErrorNamed(outcome),
                                  "Failed to submit enquiry"))
            /\ UNCHANGED <<enquiries, created, before>>
  /\ pending' = pending \ {p}
  /\ UNCHANGED <<readyState, exited, clock, appointments>>

\* app.post('/api/appointment'), up to `await appointment.save()`.
PostAppointment(req) ==
  /\ Running
  /\ Dispatch(req) = "postAppointment"
  /\ IF AppointmentMissing(req.body)
     THEN /\ lastResponse' =
               Sent(<<[Response(req, "postAppointment", 400) EXCEPT
                         !.error = "Missing required fields"]>>)
          /\ UNCHANGED pending
     ELSE /\ CanSuspend
          /\ Room
          /\ LET appointment == appointmentSchema(appointmentData(req.body), GenOid, clock) IN
               /\ pending' = pending \cup
                    {[rid |-> FreeRid, handler |-> "postAppointment", req |-> req,
                      doc |-> appointment, oid |-> GenOid, now |-> clock,
                      after |-> {d["_id"].s : d \in appointments}]}
          /\ UNCHANGED lastResponse
  /\ UNCHANGED <<readyState, exited, clock, enquiries, appointments, created, before>>

\* app.post('/api/appointment'), from the end of `await appointment.save()`.
AppointmentSaved(p) ==
  /\ Running
  /\ p \in pending
  /\ p.handler = "postAppointment"
  /\ \E outcome \in SaveOutcomes(appointments, p.doc, AppointmentRequired) :
       IF outcome = "ok"
       THEN /\ appointments' = InsertOne(appointments, p.doc)
            /\ lastResponse' =
                 Sent(<<[Response(p.req, "postAppointment", 201) EXCEPT
                           !.success = "true",
                           !.message = "Appointment request submitted successfully",
                           !.id = p.doc["_id"].s, !.storeOps = 1]>>)
            /\ created' = created \cup
                 {[handler |-> "postAppointment", id |-> p.doc["_id"].s, body |-> p.req.body]}
            /\ before' = before \cup {<<"appointments", a, p.doc["_id"].s>> : a \in p.after}
       ELSE /\ lastResponse' =
                 Sent(CreateCatch(p.req, "postAppointment", ErrorNamed(outcome),
                                  "Failed to submit appointment request"))
            /\ UNCHANGED <<appointments, created, before>>
  /\ pending' = pending \ {p}
  /\ UNCHANGED <<readyState, exited, clock, enquiries>>

\* --------------------------------------------------------- list handlers
\* What a find() ends with: the sorted documents when the connection is up,
\* an error at any time.
ListResponses(req, handler, coll, failed) ==
  {[Response(req, handler, 500) EXCEPT
      !.success = "false", !.error = failed, !.storeOps = 1]}
  \cup (IF readyState = 1
        THEN {[Response(req, handler, 200) EXCEPT
                 !.success = "true", !.count = Len(q), !.data = q, !.storeOps = 1] :
                q \in SortedByCreatedAtDesc(coll)}
        ELSE {})

\* app.get('/api/enquiries'), up to `await Enquiry.find().sort(...)`.
GetEnquiries(req) ==
  /\ Running
  /\ Dispatch(req) = "getEnquiries"
  /\ CanSuspend
  /\ pending' = pending \cup
       {[rid |-> FreeRid, handler |-> "getEnquiries", req |-> req,
         after |-> {c \in created : c.handler = "postEnquiry"}]}
  /\ UNCHANGED <<readyState, exited, clock, enquiries, appointments, lastResponse,
                 created, before>>

\* app.get('/api/enquiries'), from the end of the await.
EnquiriesFound(p) ==
  /\ Running
  /\ p \in pending
  /\ p.handler = "getEnquiries"
  /\ lastResponse' \in
       ListResponses(p.req, "getEnquiries", enquiries, "Failed to fetch enquiries")
  /\ pending' = pending \ {p}
  /\ UNCHANGED <<readyState, exited, clock, enquiries, appointments, created, before>>

\* app.get('/api/appointments'), up to `await Appointment.find().sort(...)`.
GetAppointments(req) ==
  /\ Running
  /\ Dispatch(req) = "getAppointments"
  /\ CanSuspend
  /\ pending' = pending \cup
       {[rid |-> FreeRid, handler |-> "getAppointments", req |-> req,
         after |-> {c \in created : c.handler = "postAppointment"}]}
  /\ UNCHANGED <<readyState, exited, clock, enquiries, appointments, lastResponse,
                 created, before>>

\* app.get('/api/appointments'), from the end of the await.
AppointmentsFound(p) ==
  /\ Running
  /\ p \in pending
  /\ p.handler = "getAppointments"
  /\ lastResponse' \in
       ListResponses(p.req, "getAppointments", appointments, "Failed to fetch appointments")
  /\ pending' = pending \ {p}
  /\ UNCHANGED <<readyState, exited, clock, enquiries, appointments, created, before>>

\* --------------------------------------------- health, root, 404 handlers
\* A status that counts a connection still being opened as connected.
dbStatus_Connecting == IF readyState \in {1, 2} THEN "connected" ELSE "disconnected"

\* const dbStatus = mongoose.connection.readyState === 1 ? ... : ...
dbStatus == IF readyState = 1 THEN "connected" ELSE "disconnected"

\* process.env.NODE_ENV || 'development'
Environment(NODE_ENV) == IF NODE_ENV = "unset" THEN "development" ELSE NODE_ENV

\* app.get('/health'): the first variant reports the environment, the second
\* does not.
Health(req) ==
  /\ Running
  /\ Dispatch(req) = "health"
  /\ \E variant \in {1, 2}, NODE_ENV \in NodeEnvs :
       lastResponse' =
         [Response(req, "health", 200) EXCEPT
            !.message = "OK", !.database = dbStatus,
            !.environment = IF variant = 1 THEN Environment(NODE_ENV) ELSE ""]
  /\ UNCHANGED <<readyState, exited, clock, enquiries, appointments, pending,
                 created, before>>

\* app.get('/')
Root(req) ==
  /\ Running
  /\ Dispatch(req) = "root"
  /\ \E variant \in {1, 2}, NODE_ENV \in NodeEnvs :
       lastResponse' =
         [Response(req, "root", 200) EXCEPT
            !.message = "SKM Chambers API",
            !.environment = IF variant = 1 THEN Environment(NODE_ENV) ELSE ""]
  /\ UNCHANGED <<readyState, exited, clock, enquiries, appointments, pending,
                 created, before>>

\* The 404 handler: app.use((req, res) => ...) after the routes.
NotFound(req) ==
  /\ Running
  /\ Dispatch(req) = "notFound"
  /\ lastResponse' =
       [Response(req, "notFound", 404) EXCEPT
          !.error = "Endpoint not found", !.availableEndpoints = TRUE]
  /\ UNCHANGED <<readyState, exited, clock, enquiries, appointments, pending,
                 created, before>>

\* ------------------------------------------- connection, signals, clock
\* mongoose.connect(...).then
ConnectResolved ==
  /\ Running
  /\ readyState = 2
  /\ readyState' = 1
  /\ UNCHANGED <<exited, clock, enquiries, appointments, pending, lastResponse,
                 created, before>>

\* mongoose.connect(...).catch
ConnectRejected ==
  /\ Running
  /\ readyState = 2
  /\ readyState' = 0
  /\ UNCHANGED <<exited, clock, enquiries, appointments, pending, lastResponse,
                 created, before>>

\* process.on('SIGINT' / 'SIGTERM'), up to `await mongoose.connection.close()`.
Signal ==
  /\ Running
  /\ readyState # 3
  /\ readyState' = 3
  /\ UNCHANGED <<exited, clock, enquiries, appointments, pending, lastResponse,
                 created, before>>

\* The signal handler from the end of the await: process.exit(0).
Closed ==
  /\ Running
  /\ readyState = 3
  /\ readyState' = 0
  /\ exited' = TRUE
  /\ UNCHANGED <<clock, enquiries, appointments, pending, lastResponse,
                 created, before>>

\* The response of the last turn has left the process.
ResponseEnd ==
  /\ ~exited
  /\ lastResponse # NoResponse
  /\ lastResponse' = NoResponse
  /\ UNCHANGED <<readyState, exited, clock, enquiries, appointments, pending, created, before>>

\* A millisecond passes.
Tick ==
  /\ Running
  /\ clock < MaxClock
  /\ clock' = clock + 1
  /\ UNCHANGED <<readyState, exited, enquiries, appointments, pending,
                 lastResponse, created, before>>

\* ------------------------------------------------------------------ Next
NextOver(requests) ==
  \/ \E req \in requests : CorsPreflight(req)
  \/ \E req \in requests : ErrorMiddleware(req)
  \/ \E req \in requests : PostEnquiry(req)
  \/ \E p \in pending : EnquirySaved(p)
  \/ \E req \in requests : PostAppointment(req)
  \/ \E p \in pending : AppointmentSaved(p)
  \/ \E req \in requests : GetEnquiries(req)
  \/ \E p \in pending : EnquiriesFound(p)
  \/ \E req \in requests : GetAppointments(req)
  \/ \E p \in pending : AppointmentsFound(p)
  \/ \E req \in requests : Health(req)
  \/ \E req \in requests : Root(req)
  \/ \E req \in requests : NotFound(req)
  \/ ConnectResolved
  \/ ConnectRejected
  \/ Signal
  \/ Closed
  \/ ResponseEnd
  \/ Tick

\* The program under the traffic that exercises the store.
Next == NextOver(StoreRequests)
Spec == Init /\ [][Next]_vars

\* The program under the traffic that exercises the router and the handlers'
\* checks.
NextRouting == NextOver(RoutingRequests)
SpecRouting == Init /\ [][NextRouting]_vars

\* ================================================================ claims
IsCreate(r) == r.handler \in {"postEnquiry", "postAppointment"}
IsList(r) == r.handler \in {"getEnquiries", "getAppointments"}

\* The document of a list response that has the id of a 201 response.
Listed(r, id) == {i \in DOMAIN r.data : r.data[i]["_id"].s = id}

\* The values a body gave for the text paths of the enquiry schema are the
\* document's, as the schema casts them.
EnquiryFieldsKept(body, doc) ==
  \A f \in EnquiryPaths \ {"_id", "createdAt"} :
    body[f] # Absent => doc[f] = CastString(body[f])

\* The request whose handler this step resumes.
Resumed(p) == p \in pending /\ p \notin pending'

\* A step that adds an enquiry is a POST /api/enquiry answered 201 with the
\* id of the document it added.
C1_InsertAnswered ==
  enquiries' # enquiries =>
    /\ lastResponse'.handler = "postEnquiry"
    /\ lastResponse'.status = 201
    /\ lastResponse'.success = "true"
    /\ lastResponse'.id # ""
    /\ ~EnquiryMissing(lastResponse'.req.body)
    /\ \E d \in enquiries' \ enquiries :
         d["_id"].s = lastResponse'.id /\ EnquiryFieldsKept(lastResponse'.req.body, d)

\* The response to a list request holds every enquiry that was answered 201
\* before the request arrived.
C1_OriginalStep ==
  \A p \in pending :
    (Resumed(p) /\ p.handler = "getEnquiries") =>
      \A c \in p.after :
        /\ c.id # ""
        /\ \E i \in Listed(lastResponse', c.id) :
             EnquiryFieldsKept(c.body, lastResponse'.data[i])

\* C1 as stated: a POST /api/enquiry that inserted is answered 201 with
\* success and a non-empty id, and every response to a GET /api/enquiries that
\* arrives later holds a record with that id and the submitted field values.
C1_Original == [][C1_OriginalStep /\ C1_InsertAnswered]_vars

\* The same of the list responses with status 200.
C1_ListHolds ==
  \A p \in pending :
    (Resumed(p) /\ p.handler = "getEnquiries" /\ lastResponse'.status = 200) =>
      \A c \in p.after :
        /\ c.id # ""
        /\ \E i \in Listed(lastResponse', c.id) :
             EnquiryFieldsKept(c.body, lastResponse'.data[i])

\* C1, amended: a POST /api/enquiry that inserted is answered 201 with success
\* and a non-empty id, and every successful (200) response to a GET
\* /api/enquiries that arrives later holds a record with that id and the
\* submitted values of the enquiry's fields.
C1_Amended == [][C1_ListHolds /\ C1_InsertAnswered]_vars

C1_Witness ==
  /\ lastResponse.handler = "getEnquiries"
  /\ lastResponse.status = 200
  /\ \E c \in created :
       /\ c.handler = "postEnquiry"
       /\ c.body["extra"] # Absent
       /\ Listed(lastResponse, c.id) # {}

\* A create request with a required field absent or empty.
IncompleteBody(r) ==
  \/ r.handler = "postEnquiry" /\
       \E f \in EnquiryRequired : r.req.body[f] \in {Absent, Str("")}
  \/ r.handler = "postAppointment" /\
       \E f \in AppointmentRequired : r.req.body[f] \in {Absent, Str("")}

\* No such request waits on the store.
C2_NeverSuspended ==
  \A p \in pending :
    /\ p.handler = "postEnquiry" =>
         \A f \in EnquiryRequired : p.req.body[f] \notin {Absent, Str("")}
    /\ p.handler = "postAppointment" =>
         \A f \in AppointmentRequired : p.req.body[f] \notin {Absent, Str("")}

\* The step that answers such a request.
C2_Rejected ==
  (lastResponse' # lastResponse /\ IncompleteBody(lastResponse')) =>
    /\ lastResponse'.status = 400
    /\ lastResponse'.storeOps = 0
    /\ lastResponse'.sends = 1
    /\ UNCHANGED <<enquiries, appointments, pending>>

C3_Step ==
  \A p \in pending :
    (Resumed(p) /\ IsList(p) /\ lastResponse'.status = 200) =>
      \A t \in before :
        (/\ t[1] = (IF p.handler = "getEnquiries" THEN "enquiries" ELSE "appointments")
         /\ {t[2], t[3]} \subseteq {c.id : c \in p.after}) =>
          \A i \in Listed(lastResponse', t[2]), j \in Listed(lastResponse', t[3]) : j < i

\* C3 as stated: when the document a was inserted before the request that
\* inserted b arrived, every response to a list request that arrives after
\* both has b before a.
C3_LaterFirst == [][C3_Step]_vars

\* C4: no two documents of a collection share an _id, and every required path
\* of every document holds a non-empty text (a date, for preferredDate).
C4_StoreInvariant ==
  /\ \A d, e \in enquiries : d["_id"] = e["_id"] => d = e
  /\ \A d, e \in appointments : d["_id"] = e["_id"] => d = e
  /\ \A d \in enquiries :
       /\ d["_id"].k = "oid" /\ d["_id"].s # ""
       /\ \A f \in EnquiryRequired : d[f].k = "str" /\ d[f].s # ""
  /\ \A d \in appointments :
       /\ d["_id"].k = "oid" /\ d["_id"].s # ""
       /\ \A f \in AppointmentRequired \ {"preferredDate"} : d[f].k = "str" /\ d[f].s # ""
       /\ d["preferredDate"].k = "date"

\* A second create with a caller's _id that a stored document has was refused.
C4_Witness ==
  /\ lastResponse.handler = "postEnquiry"
  /\ lastResponse.status = 500
  /\ lastResponse.details = MongoServerError.message
  /\ \E d \in enquiries : d["_id"].s = lastResponse.req.body["_id"].s

\* The step C5_AppendOnly is about.
C5_Step ==
  /\ enquiries \subseteq enquiries'
  /\ appointments \subseteq appointments'
  /\ Cardinality(enquiries') + Cardinality(appointments')
       <= Cardinality(enquiries) + Cardinality(appointments) + 1
  /\ enquiries' # enquiries => lastResponse'.handler = "postEnquiry"
  /\ appointments' # appointments => lastResponse'.handler = "postAppointment"
  /\ (lastResponse' # lastResponse /\ ~IsCreate(lastResponse')) =>
       UNCHANGED <<enquiries, appointments>>

\* C5: a step never removes or changes a stored document; it adds at most one
\* document, and only the create handler of a collection adds to it.
C5_AppendOnly == [][C5_Step]_vars

C5_Witness ==
  /\ enquiries # {}
  /\ appointments # {}
  /\ lastResponse.handler = "notFound"

\* The step C6_ServerGenerated is about.
C6_Step ==
  \A p \in pending :
    (Resumed(p) /\ IsCreate(p) /\ lastResponse'.status = 201) =>
      \E d \in (enquiries' \cup appointments') \ (enquiries \cup appointments) :
        /\ d["_id"] = ObjectId(p.oid)
        /\ d["createdAt"] = DateV(p.now)
        /\ (p.req.body["type"] = Absent) <=>
             (d["type"] = Str(IF p.handler = "postEnquiry"
                              THEN "general_enquiry" ELSE "appointment_request"))

\* C6 as stated: the document a successful create stores has the ObjectId and
\* the createdAt the server generated for it, whatever the body says, and its
\* type is the schema's default exactly when the body gave none.
C6_ServerGenerated == [][C6_Step]_vars

\* A preferredDate text that Date.parse refuses.
UnparsableDate(body) ==
  body["preferredDate"].k = "str" /\ DateParse(body["preferredDate"].s) < 0

\* The step C7_UnparsableDateRejected is about.
C7_Step ==
  /\ \A p \in pending :
       (Resumed(p) /\ p.handler = "postAppointment" /\ UnparsableDate(p.req.body)) =>
         /\ ~AppointmentMissing(p.req.body)
         /\ lastResponse'.status = 400
         /\ lastResponse'.error = "Validation error"
         /\ UNCHANGED <<enquiries, appointments>>
  /\ \A d \in appointments' : d["preferredDate"].k = "date"
  /\ \A d \in appointments' \ appointments :
       d["preferredDate"].n = DateParse(lastResponse'.req.body["preferredDate"].s)

\* C7: an appointment whose required fields are all given but whose
\* preferredDate text is no date is answered 400 as a validation error and
\* nothing is stored; every stored preferredDate is a date, the one its text
\* parses to.
C7_UnparsableDateRejected == [][C7_Step]_vars

C7_Witness ==
  /\ lastResponse.handler = "postAppointment"
  /\ UnparsableDate(lastResponse.req.body)
  /\ lastResponse.status = 400
  /\ \E d \in appointments : d["preferredDate"] = DateV(9)

\* The step C8_StoreFailures is about.
C8_Step ==
  \A p \in pending :
    /\ (Resumed(p) /\ IsCreate(p) /\ lastResponse'.status # 201) =>
         /\ lastResponse'.sends = 1
         /\ lastResponse'.details # ""
         /\ lastResponse'.status =
              (IF ValidationPasses(p.doc, IF p.handler = "postEnquiry"
                                          THEN EnquiryRequired ELSE AppointmentRequired)
               THEN 500 ELSE 400)
         /\ UNCHANGED <<enquiries, appointments>>
    /\ (Resumed(p) /\ IsList(p) /\ lastResponse'.status # 200) =>
         /\ lastResponse'.status = 500
         /\ lastResponse'.success = "false"
         /\ lastResponse'.error # ""
         /\ lastResponse'.data = <<>>

\* C8: a create whose save fails is answered 400 with details when the
\* document fails the schema's validation and 500 with details for any other
\* failure, and nothing is stored; a list whose read fails is answered 500
\* with success false and an error.
C8_StoreFailures == [][C8_Step]_vars

C8_Witness ==
  /\ lastResponse.handler = "postAppointment"
  /\ lastResponse.status = 500
  /\ lastResponse.details = MongooseError.message
  /\ readyState = 0

\* The routing table: method, path, handler.
RoutingTable ==
  {<<"POST", "/api/enquiry", "postEnquiry">>,
   <<"POST", "/api/appointment", "postAppointment">>,
   <<"GET", "/api/enquiries", "getEnquiries">>,
   <<"GET", "/api/appointments", "getAppointments">>,
   <<"GET", "/health", "health">>,
   <<"GET", "/", "root">>}

TableEntries(req) == {t \in RoutingTable : t[1] = req.method /\ t[2] = req.path}

AnsweredByTable(r) ==
  /\ r.sends = 1
  /\ r.json
  /\ \A t \in TableEntries(r.req) : r.handler = t[3]
  /\ TableEntries(r.req) = {} =>
       /\ r.handler = "notFound"
       /\ r.status = 404
       /\ r.error = "Endpoint not found"
       /\ r.availableEndpoints

\* C9 as stated: every request, whatever its method and path, gets exactly one
\* JSON response, from the handler of its routing-table entry, or 404 with the
\* endpoint directory when it has none.
C9_Original == lastResponse # NoResponse => AnsweredByTable(lastResponse)

\* C9, amended: every request that is answered is answered once. A request
\* whose method is neither OPTIONS nor HEAD and whose body the parser accepts
\* gets a JSON response from the handler of its routing-table entry, or 404
\* with the endpoint directory when it has none. An OPTIONS request is answered
\* 204 without a body by the cross-origin middleware, a request whose body the
\* parser refuses is answered 500 by the error responder, and a HEAD request is
\* answered without a body as the GET of its path is.
C9_Amended ==
  lastResponse # NoResponse =>
    LET r == lastResponse IN
    /\ r.sends = 1
    /\ (r.req.method \notin {"OPTIONS", "HEAD"} /\ r.req.bodyOk) => AnsweredByTable(r)
    /\ r.req.method = "OPTIONS" => (r.handler = "cors" /\ r.status = 204 /\ ~r.json)
    /\ (r.req.method # "OPTIONS" /\ ~r.req.bodyOk) =>
         (r.handler = "errorMiddleware" /\ r.status = 500)
    /\ (r.req.method = "HEAD" /\ r.req.bodyOk) =>
         /\ ~r.json
         /\ \A t \in TableEntries([r.req EXCEPT !.method = "GET"]) : r.handler = t[3]
         /\ TableEntries([r.req EXCEPT !.method = "GET"]) = {} =>
              (r.handler = "notFound" /\ r.status = 404)

C9_Witness ==
  /\ lastResponse.handler = "notFound"
  /\ lastResponse.req.method = "DELETE"
  /\ lastResponse.req.path = "/api/enquiries"
  /\ pending # {}

\* C10: GET /health answers 200 in every connection state without a store
\* operation, and reports "connected" exactly when readyState is 1,
\* "disconnected" otherwise.
C10_Health ==
  lastResponse.handler = "health" =>
    /\ lastResponse.status = 200
    /\ lastResponse.sends = 1
    /\ lastResponse.storeOps = 0
    /\ lastResponse.database \in {"connected", "disconnected"}
    /\ (lastResponse.database = "connected") <=> (readyState = 1)

C10_Witness ==
  /\ lastResponse.handler = "health"
  /\ lastResponse.req.method = "GET"
  /\ readyState = 3
  /\ lastResponse.database = "disconnected"

\* C11 as stated: every response of the error-handling middleware is 500; its
\* message is the error's own message in every deployment mode other than
\* production, the unset one included, and the generic message in production.
C11_ErrorResponder ==
  lastResponse.handler = "errorMiddleware" =>
    /\ lastResponse.status = 500
    /\ lastResponse.nodeEnv = "production" =>
         lastResponse.message = "Something went wrong"
    /\ lastResponse.nodeEnv # "production" =>
         lastResponse.message = ParseErrorMessage

====
